---- MODULE Spec2Model ----
(***************************************************************************)
(* State-machine model of src/app.py (Gemini share / pasted text -> Anki   *)
(* TSV).  A Python str is modelled as a sequence of one-character strings, *)
(* so that strip, replace, split, find, re.sub, re.match, json.loads and   *)
(* json.dumps are computed character by character as the code computes    *)
(* them.                                                                   *)
(***************************************************************************)
EXTENDS Naturals, Integers, Sequences, FiniteSets, TLC

VARIABLES
  pc,                \* position of the request (or of the function under check)
  DEEPSEEK_API_KEY,  \* the configured key, "" when the environment has none
  endpoint,          \* "download_tsv" | "download_tsv_text" | "none"
  text,              \* form field `text` / argument of extract_json_from_text
  raw,               \* page text inside fetch_dialogue_from_share
  kept_lines,        \* lines that survived should_delete_line
  paragraphs,        \* result of split_into_paragraphs
  final_dialogue,    \* result of the exact dedup loop
  content,           \* the model's reply (choices[0].message.content)
  result,            \* outcome of extract_json_from_text
  cards,             \* result.get("anki_cards", [])
  tsv,               \* outcome of to_tsv
  response,          \* the HTTP response of the request
  hist,              \* the pipeline steps that ran, in order
  network,           \* the external calls attempted, in order
  line,              \* argument of should_delete_line
  deleted,           \* result of should_delete_line
  obj,               \* the value O of the extractor round trip
  again              \* clean_text applied a second time

vars == <<pc, DEEPSEEK_API_KEY, endpoint, text, raw, kept_lines, paragraphs,
          final_dialogue, content, result, cards, tsv, response, hist, network,
          line, deleted, obj, again>>

(***************************************************************************)
(* Characters and str methods                                              *)
(***************************************************************************)

\* The backtick cannot be written in a string literal; this is that character.
BACKTICK == "<backtick>"

\* The regular expression element .* inside a pattern of DELETE_LINE_PATTERNS.
DOTSTAR == "<dotstar>"

\* What str.strip() removes and what \s matches.
WS == {" ", "\t", "\n", "\r", "\f"}

UPPER ==
  <<"A", "B", "C", "D", "E", "F", "G", "H", "I", "J", "K", "L", "M",
    "N", "O", "P", "Q", "R", "S", "T", "U", "V", "W", "X", "Y", "Z">>

LOWER ==
  <<"a", "b", "c", "d", "e", "f", "g", "h", "i", "j", "k", "l", "m",
    "n", "o", "p", "q", "r", "s", "t", "u", "v", "w", "x", "y", "z">>

Range(s) == {s[i] : i \in 1..Len(s)}

lower(c) ==
  IF \E i \in 1..26 : UPPER[i] = c
    THEN LOWER[CHOOSE i \in 1..26 : UPPER[i] = c]
    ELSE c

upper(c) ==
  IF \E i \in 1..26 : LOWER[i] = c
    THEN UPPER[CHOOSE i \in 1..26 : LOWER[i] = c]
    ELSE c

Take(s, n) == SubSeq(s, 1, n)

Drop(s, n) == SubSeq(s, n + 1, Len(s))

startswith(s, p) == Len(p) <= Len(s) /\ Take(s, Len(p)) = p

\* The number of leading elements of s that lie in S.
RunLen(s, S) ==
  CHOOSE k \in 0..Len(s) :
    /\ \A i \in 1..k : s[i] \in S
    /\ (k = Len(s) \/ s[k + 1] \notin S)

\* The number of trailing elements of s that lie in S.
RunLenEnd(s, S) ==
  CHOOSE k \in 0..Len(s) :
    /\ \A i \in (Len(s) - k + 1)..Len(s) : s[i] \in S
    /\ (k = Len(s) \/ s[Len(s) - k] \notin S)

lstrip(s) == Drop(s, RunLen(s, WS))

rstrip(s) == Take(s, Len(s) - RunLenEnd(s, WS))

strip(s) == rstrip(lstrip(s))

\* str.find and str.rfind of one character; 0 stands for Python's -1.
find(s, c) ==
  IF c \in Range(s)
    THEN CHOOSE i \in 1..Len(s) : s[i] = c /\ \A j \in 1..(i - 1) : s[j] # c
    ELSE 0

rfind_first(s, c) == find(s, c)

rfind(s, c) ==
  IF c \in Range(s)
    THEN CHOOSE i \in 1..Len(s) : s[i] = c /\ \A j \in (i + 1)..Len(s) : s[j] # c
    ELSE 0

RECURSIVE replace(_, _, _)
replace(s, old, new) ==
  IF s = <<>> THEN <<>>
  ELSE IF startswith(s, old)
    THEN new \o replace(Drop(s, Len(old)), old, new)
    ELSE <<s[1]>> \o replace(Tail(s), old, new)

RECURSIVE split(_, _)
split(s, c) ==
  IF c \notin Range(s) THEN <<s>>
  ELSE <<Take(s, find(s, c) - 1)>> \o split(Drop(s, find(s, c)), c)

RECURSIVE join(_, _)
join(parts, sep) ==
  IF parts = <<>> THEN <<>>
  ELSE IF Len(parts) = 1 THEN parts[1]
  ELSE parts[1] \o sep \o join(Tail(parts), sep)

\* re.sub(r"[S]{min,}", repl, s): every maximal run of at least min characters
\* of S becomes repl; shorter runs are kept as they are.
RECURSIVE sub_runs(_, _, _, _)
sub_runs(s, S, min, repl) ==
  IF s = <<>> THEN <<>>
  ELSE LET r == RunLen(s, S) IN
       IF r = 0 THEN <<s[1]>> \o sub_runs(Tail(s), S, min, repl)
       ELSE (IF r >= min THEN repl ELSE Take(s, r))
              \o sub_runs(Drop(s, r), S, min, repl)

BoundedSeq(S, n) == UNION {[1..k -> S] : k \in 0..n}

(***************************************************************************)
(* Text Normalizer                                                         *)
(***************************************************************************)

clean_text(s) ==
  strip(sub_runs(sub_runs(replace(s, <<"\r", "\n">>, <<"\n">>),
                          {" ", "\t"}, 2, <<" ">>),
                 {"\n"}, 3, <<"\n", "\n">>))

(***************************************************************************)
(* Line Filter                                                             *)
(***************************************************************************)

DELETE_LINE_PATTERNS ==
  << <<"A", "b", "o", "u", "t", " ", "G", "e", "m", "i", "n", "i">>,
     <<"G", "e", "m", "i", "n", "i", " ", "A", "p", "p">>,
     <<"S", "u", "b", "s", "c", "r", "i", "p", "t", "i", "o", "n", "s">>,
     <<"F", "o", "r", " ", "B", "u", "s", "i", "n", "e", "s", "s">>,
     <<"O", "p", "e", "n", "s", " ", "i", "n", " ", "a", " ", "n", "e", "w", " ", "w", "i", "n", "d", "o", "w">>,
     <<"L", "a", "p", "t", "o", "p", " ", "O", "n", " ", "D", "e", "s", "k">>,
     <<"h", "t", "t", "p", "s", ":", "/", "/", "g", "e", "m", "i", "n", "i", ".", "g", "o", "o", "g", "l", "e", ".", "c", "o", "m", "/", "s", "h", "a", "r", "e", "/", DOTSTAR>>,
     <<"C", "r", "e", "a", "t", "e", "d", " ", "w", "i", "t", "h", DOTSTAR>>,
     <<"P", "u", "b", "l", "i", "s", "h", "e", "d", DOTSTAR>>,
     <<"S", "i", "g", "n", " ", "i", "n">>,
     <<"B", "e", "f", "o", "r", "e", " ", "y", "o", "u", " ", "c", "o", "n", "t", "i", "n", "u", "e", " ", "t", "o", " ", "G", "o", "o", "g", "l", "e">>,
     <<"W", "e", " ", "u", "s", "e", " ", "c", "o", "o", "k", "i", "e", "s", " ", "a", "n", "d", " ", "d", "a", "t", "a", DOTSTAR>>,
     <<"D", "e", "l", "i", "v", "e", "r", " ", "a", "n", "d", " ", "m", "a", "i", "n", "t", "a", "i", "n", " ", "G", "o", "o", "g", "l", "e", " ", "s", "e", "r", "v", "i", "c", "e", "s">>,
     <<"T", "r", "a", "c", "k", " ", "o", "u", "t", "a", "g", "e", "s", DOTSTAR>>,
     <<"M", "e", "a", "s", "u", "r", "e", " ", "a", "u", "d", "i", "e", "n", "c", "e", " ", "e", "n", "g", "a", "g", "e", "m", "e", "n", "t", DOTSTAR>>,
     <<"I", "f", " ", "y", "o", "u", " ", "c", "h", "o", "o", "s", "e", " ", "t", "o", DOTSTAR>>,
     <<"N", "o", "n", "-", "p", "e", "r", "s", "o", "n", "a", "l", "i", "z", "e", "d", " ", "c", "o", "n", "t", "e", "n", "t", DOTSTAR>>,
     <<"P", "e", "r", "s", "o", "n", "a", "l", "i", "z", "e", "d", " ", "c", "o", "n", "t", "e", "n", "t", DOTSTAR>>,
     <<"S", "e", "l", "e", "c", "t", " ", DOTSTAR, "p", "r", "i", "v", "a", "c", "y", DOTSTAR>>,
     <<"R", "e", "j", "e", "c", "t", " ", "a", "l", "l">>,
     <<"A", "c", "c", "e", "p", "t", " ", "a", "l", "l">>,
     <<"M", "o", "r", "e", " ", "o", "p", "t", "i", "o", "n", "s">>,
     <<"P", "r", "i", "v", "a", "c", "y", " ", "P", "o", "l", "i", "c", "y">>,
     <<"T", "e", "r", "m", "s", " ", "o", "f", " ", "S", "e", "r", "v", "i", "c", "e">> >>

\* Pattern p from element i on against s from character j on, under
\* re.IGNORECASE: a literal matches its letter in either case, .* any run of
\* characters other than a newline, and the closing $ the end of s or the
\* place before a final newline.
RECURSIVE match_here(_, _, _, _)
match_here(p, i, s, j) ==
  IF i > Len(p) THEN j = Len(s) + 1 \/ (j = Len(s) /\ s[j] = "\n")
  ELSE IF p[i] = DOTSTAR
    THEN \E k \in j..(Len(s) + 1) :
           /\ \A m \in j..(k - 1) : s[m] # "\n"
           /\ match_here(p, i + 1, s, k)
    ELSE /\ j <= Len(s)
         /\ lower(s[j]) = lower(p[i])
         /\ match_here(p, i + 1, s, j + 1)

\* The same without the closing $: what the pattern would match were it not
\* anchored at the end of the line.
RECURSIVE match_prefix(_, _, _, _)
match_prefix(p, i, s, j) ==
  IF i > Len(p) THEN TRUE
  ELSE IF p[i] = DOTSTAR
    THEN \E k \in j..(Len(s) + 1) :
           /\ \A m \in j..(k - 1) : s[m] # "\n"
           /\ match_prefix(p, i + 1, s, k)
    ELSE /\ j <= Len(s)
         /\ lower(s[j]) = lower(p[i])
         /\ match_prefix(p, i + 1, s, j + 1)

re_match_unanchored(p, s) == match_prefix(p, 1, s, 1)

\* DELETE_RE[k].match(s), the pattern being ^...$ compiled with re.IGNORECASE.
re_match(p, s) == match_here(p, 1, s, 1)

should_delete_line(l) ==
  IF strip(l) = <<>> THEN FALSE
  ELSE \E k \in 1..Len(DELETE_LINE_PATTERNS) :
         re_match(DELETE_LINE_PATTERNS[k], strip(l))

(***************************************************************************)
(* Paragraph Segmenter and Deduplicator                                    *)
(***************************************************************************)

\* The loop of split_into_paragraphs over the remaining lines, with the
\* paragraphs emitted so far and the buffer; the end of input flushes the buffer.
RECURSIVE split_loop(_, _, _)
split_loop(lines, paras, buf) ==
  IF lines = <<>>
    THEN IF buf # <<>> THEN Append(paras, strip(join(buf, <<"\n">>))) ELSE paras
  ELSE IF strip(Head(lines)) = <<>>
    THEN IF buf # <<>>
           THEN split_loop(Tail(lines), Append(paras, strip(join(buf, <<"\n">>))), <<>>)
           ELSE split_loop(Tail(lines), paras, buf)
    ELSE split_loop(Tail(lines), paras, Append(buf, Head(lines)))

\* The same loop without the flush after it.
RECURSIVE split_loop_no_flush(_, _, _)
split_loop_no_flush(lines, paras, buf) ==
  IF lines = <<>> THEN paras
  ELSE IF strip(Head(lines)) = <<>>
    THEN IF buf # <<>>
           THEN split_loop_no_flush(Tail(lines),
                                    Append(paras, strip(join(buf, <<"\n">>))), <<>>)
           ELSE split_loop_no_flush(Tail(lines), paras, buf)
    ELSE split_loop_no_flush(Tail(lines), paras, Append(buf, Head(lines)))

split_into_paragraphs_no_flush(lines) ==
  SelectSeq(split_loop_no_flush(lines, <<>>, <<>>), LAMBDA p : p # <<>>)

split_into_paragraphs(lines) ==
  SelectSeq(split_loop(lines, <<>>, <<>>), LAMBDA p : p # <<>>)

\* The loop of fetch_dialogue_from_share over raw.split("\n").
RECURSIVE keep_lines(_)
keep_lines(lines) ==
  IF lines = <<>> THEN <<>>
  ELSE IF strip(Head(lines)) = <<>> THEN <<<<>>>> \o keep_lines(Tail(lines))
  ELSE IF should_delete_line(strip(Head(lines))) THEN keep_lines(Tail(lines))
  ELSE <<strip(Head(lines))>> \o keep_lines(Tail(lines))

\* The exact dedup loop: seen is the set of paragraphs already emitted.
RECURSIVE dedup_loop(_, _)
dedup_loop(ps, seen) ==
  IF ps = <<>> THEN <<>>
  ELSE IF Head(ps) \in seen THEN dedup_loop(Tail(ps), seen)
  ELSE <<Head(ps)>> \o dedup_loop(Tail(ps), seen \cup {Head(ps)})

(***************************************************************************)
(* JSON values, json.dumps and json.loads                                  *)
(***************************************************************************)

\* A parsed JSON value: None, bool, int, str, list, or dict.  A dict is the
\* sequence of its items in insertion order, with distinct keys.
JNull == [t |-> "null", v |-> <<>>]

JBool(b) == [t |-> "bool", v |-> b]

JNum(n) == [t |-> "num", v |-> n]

JStr(s) == [t |-> "str", v |-> s]

JList(xs) == [t |-> "list", v |-> xs]

JDict(items) == [t |-> "dict", v |-> items]

Item(k, x) == [k |-> k, v |-> x]

DIGITS == <<"0", "1", "2", "3", "4", "5", "6", "7", "8", "9">>

IsDigit(c) == \E d \in 1..10 : DIGITS[d] = c

DigitValue(c) == (CHOOSE d \in 1..10 : DIGITS[d] = c) - 1

\* dict key lookup, d[k] being set last wins; None when the key is absent.
dict_has(items, k) == \E i \in 1..Len(items) : items[i].k = k

dict_get(items, k, default) ==
  IF dict_has(items, k)
    THEN items[CHOOSE i \in 1..Len(items) : items[i].k = k].v
    ELSE default

dict_set(items, k, x) ==
  IF dict_has(items, k)
    THEN [i \in 1..Len(items) |-> IF items[i].k = k THEN Item(k, x) ELSE items[i]]
    ELSE Append(items, Item(k, x))

\* The escapes json.dumps writes and json.loads reads, as <<character, letter>>.
ESCAPES ==
  { <<"\"", "\"">>, <<"\\", "\\">>, <<"\n", "n">>, <<"\r", "r">>,
    <<"\t", "t">>, <<"\f", "f">> }

RECURSIVE encode_chars(_)
encode_chars(s) ==
  IF s = <<>> THEN <<>>
  ELSE (IF \E e \in ESCAPES : e[1] = s[1]
          THEN <<"\\", (CHOOSE e \in ESCAPES : e[1] = s[1])[2]>>
          ELSE <<s[1]>>)
       \o encode_chars(Tail(s))

encode_str(s) == <<"\"">> \o encode_chars(s) \o <<"\"">>

RECURSIVE encode_int(_)
encode_int(n) ==
  IF n < 10 THEN <<DIGITS[n + 1]>>
  ELSE encode_int(n \div 10) \o <<DIGITS[(n % 10) + 1]>>

\* json.dumps(x) with its default separators ", " and ": ".
RECURSIVE dumps(_)
dumps(x) ==
  CASE x.t = "null" -> <<"n", "u", "l", "l">>
    [] x.t = "bool" -> IF x.v THEN <<"t", "r", "u", "e">>
                               ELSE <<"f", "a", "l", "s", "e">>
    [] x.t = "num"  -> encode_int(x.v)
    [] x.t = "str"  -> encode_str(x.v)
    [] x.t = "list" ->
         <<"[">> \o join([i \in 1..Len(x.v) |-> dumps(x.v[i])], <<",", " ">>) \o <<"]">>
    [] x.t = "dict" ->
         <<"{">>
         \o join([i \in 1..Len(x.v) |->
                    encode_str(x.v[i].k) \o <<":", " ">> \o dumps(x.v[i].v)],
                 <<",", " ">>)
         \o <<"}">>

\* What the decoder skips between tokens.
JSON_WS == {" ", "\t", "\n", "\r"}

skip_ws(s, i) == i + RunLen(Drop(s, i - 1), JSON_WS)

\* A scan result: the value and the index after it, or a JSONDecodeError.
Scanned(x, next) == [ok |-> TRUE, v |-> x, next |-> next]

DecodeError == [ok |-> FALSE, v |-> JNull, next |-> 0]

\* py_scanstring from the character after the opening quote: escapes are
\* decoded and an unescaped control character is an error (strict mode).
RECURSIVE scan_string(_, _, _)
scan_string(s, i, acc) ==
  IF i > Len(s) THEN DecodeError
  ELSE IF s[i] = "\"" THEN Scanned(acc, i + 1)
  ELSE IF s[i] = "\\"
    THEN IF i + 1 > Len(s) THEN DecodeError
         ELSE IF s[i + 1] = "/" THEN scan_string(s, i + 2, Append(acc, "/"))
         ELSE IF \E e \in ESCAPES : e[2] = s[i + 1]
           THEN scan_string(s, i + 2,
                            Append(acc, (CHOOSE e \in ESCAPES : e[2] = s[i + 1])[1]))
           ELSE DecodeError
  ELSE IF s[i] \in {"\n", "\r", "\t", "\f"} THEN DecodeError
  ELSE scan_string(s, i + 1, Append(acc, s[i]))

\* The integer part of NUMBER_RE, (0|[1-9]\d*), from index i.
int_len(s, i) ==
  IF s[i] = "0" THEN 1 ELSE RunLen(Drop(s, i - 1), Range(DIGITS))

RECURSIVE decode_int(_)
decode_int(ds) ==
  IF Len(ds) = 1 THEN DigitValue(ds[1])
  ELSE 10 * decode_int(Take(ds, Len(ds) - 1)) + DigitValue(ds[Len(ds)])

RECURSIVE scan_once(_, _)
RECURSIVE scan_array(_, _, _)
RECURSIVE scan_object(_, _, _)

\* JSONArray after a value is due at index i, acc the values so far.
scan_array(s, i, acc) ==
  LET r == scan_once(s, i) IN
  IF ~r.ok THEN DecodeError
  ELSE LET j == skip_ws(s, r.next) IN
       IF j > Len(s) THEN DecodeError
       ELSE IF s[j] = "]" THEN Scanned(JList(Append(acc, r.v)), j + 1)
       ELSE IF s[j] = ","
         THEN scan_array(s, skip_ws(s, j + 1), Append(acc, r.v))
         ELSE DecodeError

\* JSONObject when a key's opening quote is due at index i, acc the items so far.
scan_object(s, i, acc) ==
  IF i > Len(s) \/ s[i] # "\"" THEN DecodeError
  ELSE LET k == scan_string(s, i + 1, <<>>) IN
       IF ~k.ok THEN DecodeError
       ELSE LET c == skip_ws(s, k.next) IN
            IF c > Len(s) \/ s[c] # ":" THEN DecodeError
            ELSE LET r == scan_once(s, skip_ws(s, c + 1)) IN
                 IF ~r.ok THEN DecodeError
                 ELSE LET j == skip_ws(s, r.next) IN
                      IF j > Len(s) THEN DecodeError
                      ELSE IF s[j] = "}"
                        THEN Scanned(JDict(dict_set(acc, k.v, r.v)), j + 1)
                      ELSE IF s[j] = ","
                        THEN scan_object(s, skip_ws(s, j + 1), dict_set(acc, k.v, r.v))
                        ELSE DecodeError

\* scan_once: the value that starts exactly at index i.
scan_once(s, i) ==
  IF i > Len(s) THEN DecodeError
  ELSE IF s[i] = "\""
    THEN LET r == scan_string(s, i + 1, <<>>) IN
         IF r.ok THEN Scanned(JStr(r.v), r.next) ELSE DecodeError
  ELSE IF s[i] = "{"
    THEN LET j == skip_ws(s, i + 1) IN
         IF j <= Len(s) /\ s[j] = "}" THEN Scanned(JDict(<<>>), j + 1)
         ELSE scan_object(s, j, <<>>)
  ELSE IF s[i] = "["
    THEN LET j == skip_ws(s, i + 1) IN
         IF j <= Len(s) /\ s[j] = "]" THEN Scanned(JList(<<>>), j + 1)
         ELSE scan_array(s, j, <<>>)
  ELSE IF startswith(Drop(s, i - 1), <<"n", "u", "l", "l">>)
    THEN Scanned(JNull, i + 4)
  ELSE IF startswith(Drop(s, i - 1), <<"t", "r", "u", "e">>)
    THEN Scanned(JBool(TRUE), i + 4)
  ELSE IF startswith(Drop(s, i - 1), <<"f", "a", "l", "s", "e">>)
    THEN Scanned(JBool(FALSE), i + 5)
  ELSE IF IsDigit(s[i])
    THEN Scanned(JNum(decode_int(SubSeq(s, i, i + int_len(s, i) - 1))),
                 i + int_len(s, i))
  ELSE DecodeError

\* json.loads(s): one value between optional whitespace, else "Extra data".
loads(s) ==
  LET r == scan_once(s, skip_ws(s, 1)) IN
  IF r.ok /\ skip_ws(s, r.next) = Len(s) + 1 THEN r ELSE DecodeError

(***************************************************************************)
(* Error messages, by the error kind each stands for                       *)
(***************************************************************************)

\* "Missing DEEPSEEK_API_KEY on server environment."
ConfigError == "Missing DEEPSEEK_API_KEY on server environment."

\* "Text too short. Please paste more content."
InputError == "Text too short. Please paste more content."

\* An exception of the browser session, passed on as it is.
FetchError == "playwright error"

\* requests.post raised (time-out, connection failure).
TransportError == "requests exception"

\* "DeepSeek API error HTTP <status>: <body>"
ApiError == "DeepSeek API error HTTP"

\* resp.json() or data["choices"][0]["message"]["content"] raised.
BodyError == "malformed API body"

\* "Model did not return JSON. First 800 chars: ..."
ParseErrorNoJson == "Model did not return JSON."

\* "Failed to parse JSON from model output: ..."
ParseErrorBadJson == "Failed to parse JSON from model output"

\* "DeepSeek returned invalid format: anki_cards is not a list"
ShapeError == "DeepSeek returned invalid format: anki_cards is not a list"

\* "'int' object has no attribute 'strip'" and its like.
AttributeError == "object has no attribute"

(***************************************************************************)
(* Response Extractor                                                      *)
(***************************************************************************)

FENCE == <<BACKTICK, BACKTICK, BACKTICK>>

FENCE_JSON == <<BACKTICK, BACKTICK, BACKTICK, "j", "s", "o", "n">>

lower_str(s) == [i \in 1..Len(s) |-> lower(s[i])]

\* re.sub(r"^\s*<tok>\s*", "", t): a leading tok, with the whitespace around
\* it, is cut; the comparison is of lower-cased text (re.IGNORECASE, and tok
\* is lower case).
sub_leading(t, tok) ==
  IF startswith(lower_str(lstrip(t)), tok)
    THEN lstrip(Drop(lstrip(t), Len(tok)))
    ELSE t

\* re.sub(r"\s*```\s*$", "", t): a fence that ends the text, with the
\* whitespace around it, is cut.
sub_trailing_fence(t) ==
  IF Len(rstrip(t)) >= 3 /\ Drop(rstrip(t), Len(rstrip(t)) - 3) = FENCE
    THEN rstrip(Take(rstrip(t), Len(rstrip(t)) - 3))
    ELSE t

\* The outcome of a function that may raise: its value, or the message.
Returned(x) == [ok |-> TRUE, v |-> x, err |-> ""]

Raised(msg) == [ok |-> FALSE, v |-> JNull, err |-> msg]

Unset == [ok |-> FALSE, v |-> JNull, err |-> "unset"]

strip_fences(t) ==
  sub_trailing_fence(sub_leading(sub_leading(strip(t), FENCE_JSON), FENCE))

extract_json_from_text(t) ==
  LET u     == strip_fences(t)
      start == find(u, "{")
      end   == rfind(u, "}")
  IN  IF start = 0 \/ end = 0 \/ end <= start THEN Raised(ParseErrorNoJson)
      ELSE LET r == loads(SubSeq(u, start, end)) IN
           IF r.ok THEN Returned(r.v) ELSE Raised(ParseErrorBadJson)

(***************************************************************************)
(* Card Serializer                                                         *)
(***************************************************************************)

KEY_ENGLISH == <<"e", "n", "g", "l", "i", "s", "h">>

KEY_NOTE_CN == <<"n", "o", "t", "e", "_", "c", "n">>

KEY_ANKI_CARDS == <<"a", "n", "k", "i", "_", "c", "a", "r", "d", "s">>

\* Python truth value of a parsed JSON value: None, False, 0, "", [] and {}
\* are false.
falsy(x) ==
  CASE x.t = "null" -> TRUE
    [] x.t = "bool" -> ~x.v
    [] x.t = "num"  -> x.v = 0
    [] OTHER        -> Len(x.v) = 0

\* (c.get(k) or ""): the value under k unless it is absent or false.
get_or_empty(c, k) ==
  IF falsy(dict_get(c.v, k, JNull)) THEN JStr(<<>>) ELSE dict_get(c.v, k, JNull)

\* s.strip().replace("\t", " ")
strip_tabs(s) == replace(strip(s), <<"\t">>, <<" ">>)

\* The loop of to_tsv over the remaining cards; .strip() on a value that is
\* not a str raises AttributeError.
RECURSIVE tsv_loop(_, _, _)
tsv_loop(cs, lines, seen) ==
  IF cs = <<>> THEN [ok |-> TRUE, lines |-> lines]
  ELSE IF Head(cs).t # "dict" THEN tsv_loop(Tail(cs), lines, seen)
  ELSE IF get_or_empty(Head(cs), KEY_ENGLISH).t # "str"
          \/ get_or_empty(Head(cs), KEY_NOTE_CN).t # "str"
    THEN [ok |-> FALSE, lines |-> lines]
  ELSE LET eng  == strip_tabs(get_or_empty(Head(cs), KEY_ENGLISH).v)
           note == strip_tabs(get_or_empty(Head(cs), KEY_NOTE_CN).v)
       IN  IF eng = <<>> \/ eng \in seen THEN tsv_loop(Tail(cs), lines, seen)
           ELSE tsv_loop(Tail(cs), Append(lines, eng \o <<"\t">> \o note),
                         seen \cup {eng})

\* to_tsv(cards): v is the returned string; lines, the records it was joined
\* from, is kept beside it to state properties of v.
to_tsv(cs) ==
  LET r == tsv_loop(cs, <<>>, {}) IN
  IF r.ok
    THEN [ok |-> TRUE, v |-> join(r.lines, <<"\n">>), lines |-> r.lines, err |-> ""]
    ELSE [ok |-> FALSE, v |-> <<>>, lines |-> <<>>, err |-> AttributeError]

NoTsv == [ok |-> FALSE, v |-> <<>>, lines |-> <<>>, err |-> "unset"]

(***************************************************************************)
(* Responses                                                               *)
(***************************************************************************)

NoResponse ==
  [status |-> 0, kind |-> "none", filename |-> "", body |-> <<>>, error |-> ""]

\* tsv_response(tsv_text, filename)
tsv_response(body, filename) ==
  [status |-> 200, kind |-> "attachment", filename |-> filename,
   body |-> body, error |-> ""]

\* HTMLResponse("<h3>Error</h3><pre>{str(e)}</pre>...", status_code=500)
ErrorPage(msg) ==
  [status |-> 500, kind |-> "error_page", filename |-> "", body |-> <<>>,
   error |-> msg]

(***************************************************************************)
(* Inputs                                                                  *)
(***************************************************************************)

\* Longest input of the normalizer check.
MaxRawLen == 5

\* Most lines of a page text of the dialogue check.
MaxPageLines == 5

\* Deepest nesting of a value of the round-trip check.
MaxDepth == 2

\* Most records of an input list of the serializer check.
MaxCards == 2

\* len(raw_text) < 20
MinTextLen == 20

CleanAlphabet == {"a", " ", "\t", "\n", "\r"}

Chars(n) == [i \in 1..n |-> "a"]

\* Pasted texts around the length threshold, bare and padded with whitespace.
PastedTexts ==
  { <<>>,
    <<" ", "\n", " ">>,
    Chars(MinTextLen - 1),
    Chars(MinTextLen),
    <<" ", " ">> \o Chars(MinTextLen - 1) \o <<"\n">>,
    <<" ">> \o Chars(MinTextLen) \o <<" ">> }

SIGN_IN == <<"S", "i", "g", "n", " ", "i", "n">>

HELLO == <<"H", "e", "l", "l", "o">>

WORLD == <<"w", "o", "r", "l", "d">>

\* Lines a scraped page is made of: content, blank, noise, and content with
\* surrounding whitespace and a carriage return.
PageLines == {<<"a">>, <<"b">>, <<>>, SIGN_IN, <<" ", "b", "\r">>}

\* Page texts the browser session hands to a request.
PageTexts ==
  { <<>>,
    HELLO \o <<"\r", "\n">> \o WORLD \o <<"\n", "\n", "\n", "\n">> \o SIGN_IN
      \o <<"\n", "\n">> \o HELLO \o <<"\n">> \o WORLD,
    SIGN_IN \o <<"\n">> \o HELLO \o <<" ", " ", "\t">> \o WORLD }

Card(e, n) == JDict(<<Item(KEY_ENGLISH, e), Item(KEY_NOTE_CN, n)>>)

CardList(cs) == JDict(<<Item(KEY_ANKI_CARDS, cs)>>)

Fenced(t) == FENCE_JSON \o <<"\n">> \o t \o <<"\n">> \o FENCE

HI == <<"H", "i">>

\* Replies of the model: no JSON at all, broken JSON, objects without the
\* list, with a non-list, and with lists of well-formed and malformed cards.
Replies ==
  { <<"S", "o", "r", "r", "y", ",", " ", "n", "o", " ", "c", "a", "r", "d", "s", ".">>,
    <<"{", "n", "o", "t", " ", "j", "s", "o", "n">>,
    <<"{", "n", "o", "t", " ", "j", "s", "o", "n", "}">>,
    <<"{", "}">>,
    dumps(JDict(<<Item(<<"c", "a", "r", "d", "s">>, JList(<<Card(JStr(HI), JStr(<<"x">>))>>))>>)),
    dumps(CardList(JNull)),
    dumps(CardList(Card(JStr(HI), JStr(<<"x">>)))),
    dumps(CardList(JList(<<>>))),
    Fenced(dumps(CardList(JList(<<Card(JStr(HI), JStr(<<"x">>)),
                                  Card(JStr(HI), JStr(<<"y">>)),
                                  Card(JStr(<<" ", " ">>), JStr(<<"x">>)),
                                  Card(JStr(<<"B", "y", "e", "\t", "N", "o", "w">>),
                                       JStr(<<>>))>>)))),
    <<"H", "e", "r", "e", " ", "y", "o", "u", " ", "g", "o", ":", " ">>
      \o dumps(CardList(JList(<<JNum(3), Card(JStr(<<"a">>), JNull)>>)))
      \o <<" ", "E", "n", "j", "o", "y", "!">>,
    dumps(CardList(JList(<<Card(JNum(5), JStr(<<"x">>))>>))) }

\* Values of the round trip: scalars, strings with braces and quotes, and
\* lists and objects nested to depth d.
RoundTripStrings ==
  { <<>>, <<"a">>, <<"{">>, <<"}">>, <<"\"">>, <<"{", "}">>, <<"}", "{">>,
    <<"a", "}">> }

Scalars ==
  {JNull, JBool(TRUE), JBool(FALSE), JNum(0), JNum(42)}
    \cup {JStr(s) : s \in RoundTripStrings}

RoundTripKeys == {<<"a">>, <<"}">>}

PairValues == {JNum(1), JDict(<<>>)}

RECURSIVE Values(_)
Values(d) ==
  IF d = 0 THEN Scalars
  ELSE LET V == Values(d - 1) IN
       V \cup {JList(<<>>), JDict(<<>>)}
         \cup {JList(<<x>>) : x \in V}
         \cup {JList(<<x, y>>) : x \in PairValues, y \in PairValues}
         \cup {JDict(<<Item(k, x)>>) : k \in RoundTripKeys, x \in V}
         \cup {JDict(<<Item(k[1], x), Item(k[2], y)>>) :
                 k \in {<<<<"a">>, <<"}">>>>, <<<<"}">>, <<"a">>>>},
                 x \in V, y \in PairValues}

\* The wrapping of the round trip: prose, a json fence, json(O), a fence.
Wrapped(o) ==
  <<"S", "u", "r", "e", ",", " ", "h", "e", "r", "e", ":">> \o <<"\n">>
    \o FENCE_JSON \o <<"\n">> \o dumps(o) \o <<"\n">> \o FENCE

\* Values a card holds under a key; Absent is the key not being there.
Absent == [t |-> "absent", v |-> <<>>]

EnglishValues ==
  { Absent, JNull, JNum(0), JNum(5), JBool(TRUE), JBool(FALSE), JList(<<>>),
    JList(<<JNum(1)>>), JDict(<<>>), JDict(<<Item(<<"a">>, JNum(1))>>),
    JStr(<<>>), JStr(<<"a">>), JStr(<<"b">>), JStr(<<" ", "a", " ">>),
    JStr(<<"a", "\t", "b">>), JStr(<<"a", "\n", "b">>), JStr(<<"\t">>),
    JStr(<<"a", " ", "b">>) }

NoteValues ==
  { Absent, JNull, JNum(5), JStr(<<"n">>), JStr(<<"x", "\t", "y">>),
    JStr(<<"n", "\n", "m">>) }

CardOf(e, n) ==
  JDict((IF e = Absent THEN <<>> ELSE <<Item(KEY_ENGLISH, e)>>)
        \o (IF n = Absent THEN <<>> ELSE <<Item(KEY_NOTE_CN, n)>>))

CardElements ==
  {JNull, JNum(5), JStr(<<"s">>), JList(<<>>)}
    \cup {CardOf(e, n) : e \in EnglishValues, n \in NoteValues}

\* The literal text of a pattern: its characters without the .* elements.
Literal(p) == SelectSeq(p, LAMBDA c : c # DOTSTAR)

upper_str(s) == [i \in 1..Len(s) |-> upper(s[i])]

\* Lines made from one table entry: the entry itself, in other case, and
\* with extra characters or whitespace before and after it.
LineVariants(l) ==
  { l, upper_str(l), lower_str(l),
    <<"x">> \o l,
    l \o <<"x">>,
    <<"I", " ", "w", "i", "l", "l", " ", "n", "o", "t", " ">> \o l
      \o <<" ", "t", "e", "r", "m", "s">>,
    <<" ">> \o l,
    l \o <<" ", " ">>,
    <<"N", "o", "n", "-">> \o l,
    l \o <<" ", "y", "o", "u", "r", " ", "P", "r", "i", "v", "a", "c", "y">> }

CandidateLines ==
  {<<>>, <<" ">>, HELLO}
    \cup UNION {LineVariants(Literal(DELETE_LINE_PATTERNS[k])) :
                  k \in 1..Len(DELETE_LINE_PATTERNS)}

(***************************************************************************)
(* The request pipeline                                                    *)
(***************************************************************************)

dialogueVars == <<raw, kept_lines, paragraphs, final_dialogue>>

modelVars == <<content, result, cards, tsv>>

checkVars == <<line, deleted, obj, again>>

\* if not DEEPSEEK_API_KEY
missing_key_never == FALSE

missing_key == DEEPSEEK_API_KEY = <<>>

\* raw_text = (raw_text or "").strip(); len(raw_text) < 20
too_short_unstripped(raw_text) == Len(raw_text) < MinTextLen

too_short(raw_text) == Len(strip(raw_text)) < MinTextLen

\* result.get("anki_cards", [])
anki_cards_or_none(r) == dict_get(r.v, KEY_ANKI_CARDS, JNull)

anki_cards_of(r) == dict_get(r.v, KEY_ANKI_CARDS, JList(<<>>))

\* POST /download_tsv arrives.
download_tsv ==
  /\ pc = "idle"
  /\ endpoint' = "download_tsv"
  /\ pc' = "fetch"
  /\ UNCHANGED <<DEEPSEEK_API_KEY, text, dialogueVars, modelVars, response, hist,
                 network, checkVars>>

\* POST /download_tsv_text arrives with its form field.
download_tsv_text ==
  /\ pc = "idle"
  /\ endpoint' = "download_tsv_text"
  /\ \E t \in PastedTexts : text' = t
  /\ pc' = "call_model"
  /\ UNCHANGED <<DEEPSEEK_API_KEY, dialogueVars, modelVars, response, hist,
                 network, checkVars>>

\* The browser session of fetch_dialogue_from_share: it raises, or it yields
\* the page text.
PageFetch ==
  /\ pc = "fetch"
  /\ hist' = Append(hist, "page_fetch")
  /\ network' = Append(network, "page_fetch")
  /\ \/ /\ response' = ErrorPage(FetchError)
        /\ pc' = "done"
        /\ UNCHANGED raw
     \/ /\ \E r \in PageTexts : raw' = r
        /\ pc' = "clean"
        /\ UNCHANGED response
  /\ UNCHANGED <<DEEPSEEK_API_KEY, endpoint, text, kept_lines, paragraphs,
                 final_dialogue, modelVars, checkVars>>

\* raw = clean_text(raw)
Clean ==
  /\ pc = "clean"
  /\ raw' = clean_text(raw)
  /\ pc' = "filter"
  /\ UNCHANGED <<DEEPSEEK_API_KEY, endpoint, text, kept_lines, paragraphs,
                 final_dialogue, modelVars, response, hist, network, checkVars>>

\* The loop over raw.split("\n") that fills kept_lines.
FilterLines ==
  /\ pc = "filter"
  /\ kept_lines' = keep_lines(split(raw, "\n"))
  /\ pc' = "segment"
  /\ UNCHANGED <<DEEPSEEK_API_KEY, endpoint, text, raw, paragraphs,
                 final_dialogue, modelVars, response, hist, network, checkVars>>

\* paragraphs = split_into_paragraphs(kept_lines)
Segment ==
  /\ pc = "segment"
  /\ paragraphs' = split_into_paragraphs(kept_lines)
  /\ pc' = "dedup"
  /\ UNCHANGED <<DEEPSEEK_API_KEY, endpoint, text, raw, kept_lines,
                 final_dialogue, modelVars, response, hist, network, checkVars>>

\* The exact dedup loop; fetch_dialogue_from_share returns its result.
Dedup ==
  /\ pc = "dedup"
  /\ final_dialogue' = dedup_loop(paragraphs, {})
  /\ pc' = "call_model"
  /\ UNCHANGED <<DEEPSEEK_API_KEY, endpoint, text, raw, kept_lines, paragraphs,
                 modelVars, response, hist, network, checkVars>>

\* The first statement of call_deepseek_for_anki_from_conversation and of
\* call_deepseek_for_anki_from_text.
CheckKey ==
  /\ pc = "call_model"
  /\ hist' = Append(hist, "check_key")
  /\ IF missing_key
       THEN response' = ErrorPage(ConfigError) /\ pc' = "done"
       ELSE /\ pc' = IF endpoint = "download_tsv_text" THEN "check_length" ELSE "post"
            /\ UNCHANGED response
  /\ UNCHANGED <<DEEPSEEK_API_KEY, endpoint, text, dialogueVars, modelVars,
                 network, checkVars>>

\* The length guard of call_deepseek_for_anki_from_text.
CheckLength ==
  /\ pc = "check_length"
  /\ hist' = Append(hist, "check_length")
  /\ IF too_short(text)
       THEN response' = ErrorPage(InputError) /\ pc' = "done"
       ELSE pc' = "post" /\ UNCHANGED response
  /\ UNCHANGED <<DEEPSEEK_API_KEY, endpoint, text, dialogueVars, modelVars,
                 network, checkVars>>

\* requests.post to the model service and the reading of its body: the call
\* raises, the status is not 200, the body has not the expected shape, or it
\* carries the model's reply.
Post ==
  /\ pc = "post"
  /\ hist' = Append(hist, "post")
  /\ network' = Append(network, "model_api")
  /\ \/ /\ \E e \in {TransportError, ApiError, BodyError} :
             response' = ErrorPage(e)
        /\ pc' = "done"
        /\ UNCHANGED content
     \/ /\ \E c \in Replies : content' = c
        /\ pc' = "extract"
        /\ UNCHANGED response
  /\ UNCHANGED <<DEEPSEEK_API_KEY, endpoint, text, dialogueVars, result, cards,
                 tsv, checkVars>>

\* return extract_json_from_text(content)
Extract ==
  /\ pc = "extract"
  /\ hist' = Append(hist, "extract")
  /\ result' = extract_json_from_text(content)
  /\ IF result'.ok
       THEN pc' = "validate" /\ UNCHANGED response
       ELSE response' = ErrorPage(result'.err) /\ pc' = "done"
  /\ UNCHANGED <<DEEPSEEK_API_KEY, endpoint, text, dialogueVars, content, cards,
                 tsv, network, checkVars>>

\* cards = result.get("anki_cards", []); if not isinstance(cards, list): raise
Validate ==
  /\ pc = "validate"
  /\ hist' = Append(hist, "validate")
  /\ IF result.v.t # "dict"
       THEN /\ response' = ErrorPage(AttributeError)
            /\ pc' = "done"
            /\ UNCHANGED cards
       ELSE /\ cards' = anki_cards_of(result.v)
            /\ IF cards'.t = "list"
                 THEN pc' = "to_tsv" /\ UNCHANGED response
                 ELSE response' = ErrorPage(ShapeError) /\ pc' = "done"
  /\ UNCHANGED <<DEEPSEEK_API_KEY, endpoint, text, dialogueVars, content, result,
                 tsv, network, checkVars>>

\* tsv = to_tsv(cards), with the exception swallowed and the request going on.
SerializeUnguarded ==
  /\ pc = "to_tsv"
  /\ hist' = Append(hist, "to_tsv")
  /\ tsv' = to_tsv(cards.v)
  /\ pc' = "respond"
  /\ UNCHANGED <<DEEPSEEK_API_KEY, endpoint, text, dialogueVars, content, result,
                 cards, response, network, checkVars>>

\* tsv = to_tsv(cards)
Serialize ==
  /\ pc = "to_tsv"
  /\ hist' = Append(hist, "to_tsv")
  /\ tsv' = to_tsv(cards.v)
  /\ IF tsv'.ok
       THEN pc' = "respond" /\ UNCHANGED response
       ELSE response' = ErrorPage(tsv'.err) /\ pc' = "done"
  /\ UNCHANGED <<DEEPSEEK_API_KEY, endpoint, text, dialogueVars, content, result,
                 cards, network, checkVars>>

\* return tsv_response(tsv, filename=...)
Respond ==
  /\ pc = "respond"
  /\ hist' = Append(hist, "respond")
  /\ response' = tsv_response(tsv.v,
                              IF endpoint = "download_tsv_text"
                                THEN "anki_cards_from_text.tsv"
                                ELSE "anki_cards.tsv")
  /\ pc' = "done"
  /\ UNCHANGED <<DEEPSEEK_API_KEY, endpoint, text, dialogueVars, modelVars,
                 network, checkVars>>

\* The state before a request: nothing is kept from one request to the next.
Fresh ==
  /\ endpoint = "none"
  /\ text = <<>>
  /\ raw = <<>>
  /\ kept_lines = <<>>
  /\ paragraphs = <<>>
  /\ final_dialogue = <<>>
  /\ content = <<>>
  /\ result = Unset
  /\ cards = JNull
  /\ tsv = NoTsv
  /\ response = NoResponse
  /\ hist = <<>>
  /\ network = <<>>
  /\ line = <<>>
  /\ deleted = FALSE
  /\ obj = JNull
  /\ again = <<>>

Init ==
  /\ pc = "idle"
  /\ DEEPSEEK_API_KEY \in {<<>>, <<"k">>}
  /\ Fresh

Next ==
  \/ download_tsv
  \/ download_tsv_text
  \/ PageFetch
  \/ Clean
  \/ FilterLines
  \/ Segment
  \/ Dedup
  \/ CheckKey
  \/ CheckLength
  \/ Post
  \/ Extract
  \/ Validate
  \/ Serialize
  \/ Respond

Spec == Init /\ [][Next]_vars

(***************************************************************************)
(* Properties of the request pipeline (specification Spec)                 *)
(***************************************************************************)

Done == pc = "done"

Ran(step) == \E i \in 1..Len(hist) : hist[i] = step

\* The steps of a request that succeeds, in the order of the handler.
FullPipeline(e) ==
  IF e = "download_tsv"
    THEN <<"page_fetch", "check_key", "post", "extract", "validate", "to_tsv",
           "respond">>
    ELSE <<"check_key", "check_length", "post", "extract", "validate", "to_tsv",
           "respond">>

\* The messages a step can fail with.
StepErrors(step) ==
  CASE step = "page_fetch"   -> {FetchError}
    [] step = "check_key"    -> {ConfigError}
    [] step = "check_length" -> {InputError}
    [] step = "post"         -> {TransportError, ApiError, BodyError}
    [] step = "extract"      -> {ParseErrorNoJson, ParseErrorBadJson}
    [] step = "validate"     -> {ShapeError, AttributeError}
    [] step = "to_tsv"       -> {AttributeError}
    [] OTHER                 -> {}

Filename == IF endpoint = "download_tsv_text" THEN "anki_cards_from_text.tsv"
                                               ELSE "anki_cards.tsv"

HasCardsField == dict_has(result.v.v, KEY_ANKI_CARDS)

CardsFieldIsList == dict_get(result.v.v, KEY_ANKI_CARDS, JNull).t = "list"

TextIsShort == Len(strip(text)) < MinTextLen

C3_ShortTextIsInputError ==
  (endpoint = "download_tsv_text" /\ TextIsShort)
    => /\ network = <<>>
       /\ Done => response = ErrorPage(InputError)

\* C3, amended: paste-and-build with a text of fewer than 20 characters after
\* trimming makes no external call and ends in an HTTP 500 error page; the
\* error is InputError when the API key is configured, and ConfigError when
\* it is missing, the key being checked before the length.
C3_ShortTextFailsBeforeAnyCall ==
  (endpoint = "download_tsv_text" /\ TextIsShort)
    => /\ network = <<>>
       /\ pc \notin {"post", "extract", "validate", "to_tsv", "respond"}
       /\ Done => response = ErrorPage(IF DEEPSEEK_API_KEY = <<>>
                                         THEN ConfigError ELSE InputError)

C3_Witness ==
  /\ Done
  /\ endpoint = "download_tsv_text"
  /\ TextIsShort
  /\ Len(text) >= MinTextLen
  /\ DEEPSEEK_API_KEY # <<>>
  /\ response = ErrorPage(InputError)
  /\ network = <<>>

\* C4, as stated: with the API key absent, a request on either endpoint ends
\* in ConfigError and no network call of any kind, page fetch or model
\* service, is attempted before it does.
C4_NoKeyNoNetworkCall ==
  (DEEPSEEK_API_KEY = <<>>)
    => /\ network = <<>>
       /\ Done => response = ErrorPage(ConfigError)

\* C4, amended: with the API key absent, a request on either endpoint ends in
\* an HTTP 500 error page and the call to the model service is never
\* attempted.  paste-and-build makes no network call at all and fails with
\* ConfigError.  scrape-and-build runs the page fetch first: it fails with
\* FetchError when the fetch fails, and with ConfigError after a fetch that
\* succeeded.
C4_NoKeyNoModelCall ==
  (DEEPSEEK_API_KEY = <<>>)
    => /\ ~(\E i \in 1..Len(network) : network[i] = "model_api")
       /\ endpoint = "download_tsv_text" => network = <<>>
       /\ (Done /\ endpoint = "download_tsv_text")
            => response = ErrorPage(ConfigError)
       /\ (Done /\ endpoint = "download_tsv")
            => /\ network = <<"page_fetch">>
               /\ response = ErrorPage(IF Ran("check_key")
                                         THEN ConfigError ELSE FetchError)

C4_Witness ==
  /\ Done
  /\ DEEPSEEK_API_KEY = <<>>
  /\ endpoint = "download_tsv"
  /\ network = <<"page_fetch">>
  /\ response = ErrorPage(ConfigError)

\* C10: a request on either endpoint ends in exactly one of two outcomes.
\* Either an attachment with status 200, after every step of the pipeline ran
\* once, in order, and succeeded, its body being the serializer's output; or
\* an error page with status 500 and no TSV content, carrying a message of the
\* step that ran last, the steps before it being the pipeline's in order and
\* none run twice.  After either, no step runs, and before the end there is no
\* response.
C10_CompleteTsvOrError ==
  /\ ~Done => response = NoResponse
  /\ Done =>
       /\ ~ENABLED Next
       /\ hist = Take(FullPipeline(endpoint), Len(hist))
       /\ Len(hist) >= 1
       /\ response.status \in {200, 500}
       /\ response.status = 200 =>
            /\ hist = FullPipeline(endpoint)
            /\ result.ok
            /\ cards.t = "list"
            /\ tsv.ok
            /\ response = tsv_response(tsv.v, Filename)
       /\ response.status = 500 =>
            /\ response = ErrorPage(response.error)
            /\ response.error \in StepErrors(hist[Len(hist)])
            /\ ~Ran("respond")
            /\ hist[Len(hist)] = "extract" => ~result.ok
            /\ hist[Len(hist)] = "to_tsv" => ~tsv.ok
            /\ hist[Len(hist)] \in {"page_fetch", "check_key", "check_length", "post",
                                    "extract", "validate"} => tsv = NoTsv

C10_Witness ==
  /\ Done
  /\ endpoint = "download_tsv"
  /\ response.status = 200
  /\ response.body # <<>>
  /\ network = <<"page_fetch", "model_api">>

(***************************************************************************)
(* The functions on their own, each over a bounded set of inputs           *)
(***************************************************************************)

FreshRequest ==
  /\ DEEPSEEK_API_KEY = <<"k">>
  /\ endpoint = "none"
  /\ text = <<>>
  /\ response = NoResponse
  /\ hist = <<>>
  /\ network = <<>>

\* clean_text applied to an input.
Normalize ==
  /\ pc = "normalize"
  /\ raw' = clean_text(raw)
  /\ pc' = "renormalize"
  /\ UNCHANGED <<DEEPSEEK_API_KEY, endpoint, text, kept_lines, paragraphs,
                 final_dialogue, modelVars, response, hist, network, checkVars>>

\* clean_text applied to its own output.
Renormalize ==
  /\ pc = "renormalize"
  /\ again' = clean_text(raw)
  /\ pc' = "normalized"
  /\ UNCHANGED <<DEEPSEEK_API_KEY, endpoint, text, dialogueVars, modelVars,
                 response, hist, network, line, deleted, obj>>

InitClean ==
  /\ pc = "normalize"
  /\ FreshRequest
  /\ raw \in BoundedSeq(CleanAlphabet, MaxRawLen)
  /\ kept_lines = <<>> /\ paragraphs = <<>> /\ final_dialogue = <<>>
  /\ content = <<>> /\ result = Unset /\ cards = JNull /\ tsv = NoTsv
  /\ line = <<>> /\ deleted = FALSE /\ obj = JNull /\ again = <<>>

NextClean == Normalize \/ Renormalize

SpecClean == InitClean /\ [][NextClean]_vars

\* should_delete_line applied to a line.
FilterLine ==
  /\ pc = "filter_line"
  /\ deleted' = should_delete_line(line)
  /\ pc' = "filtered"
  /\ UNCHANGED <<DEEPSEEK_API_KEY, endpoint, text, dialogueVars, modelVars,
                 response, hist, network, line, obj, again>>

InitFilter ==
  /\ pc = "filter_line"
  /\ FreshRequest
  /\ raw = <<>> /\ kept_lines = <<>> /\ paragraphs = <<>> /\ final_dialogue = <<>>
  /\ content = <<>> /\ result = Unset /\ cards = JNull /\ tsv = NoTsv
  /\ line \in CandidateLines
  /\ deleted = FALSE /\ obj = JNull /\ again = <<>>

NextFilter == FilterLine

SpecFilter == InitFilter /\ [][NextFilter]_vars

InitDialogue ==
  /\ pc = "clean"
  /\ FreshRequest
  /\ raw \in {join(ls, <<"\n">>) : ls \in BoundedSeq(PageLines, MaxPageLines)}
  /\ kept_lines = <<>> /\ paragraphs = <<>> /\ final_dialogue = <<>>
  /\ content = <<>> /\ result = Unset /\ cards = JNull /\ tsv = NoTsv
  /\ line = <<>> /\ deleted = FALSE /\ obj = JNull /\ again = <<>>

NextDialogue == Clean \/ FilterLines \/ Segment \/ Dedup

SpecDialogue == InitDialogue /\ [][NextDialogue]_vars

\* The reply of the round trip is made from the value O.
Wrap ==
  /\ pc = "wrap"
  /\ content' = Wrapped(obj)
  /\ pc' = "extract"
  /\ UNCHANGED <<DEEPSEEK_API_KEY, endpoint, text, dialogueVars, result, cards,
                 tsv, response, hist, network, checkVars>>

InitExtract ==
  /\ pc = "wrap"
  /\ FreshRequest
  /\ raw = <<>> /\ kept_lines = <<>> /\ paragraphs = <<>> /\ final_dialogue = <<>>
  /\ content = <<>> /\ result = Unset /\ cards = JNull /\ tsv = NoTsv
  /\ line = <<>> /\ deleted = FALSE /\ again = <<>>
  /\ obj \in Values(MaxDepth)

NextExtract == Wrap \/ Extract

SpecExtract == InitExtract /\ [][NextExtract]_vars

InitTsv ==
  /\ pc = "to_tsv"
  /\ FreshRequest
  /\ raw = <<>> /\ kept_lines = <<>> /\ paragraphs = <<>> /\ final_dialogue = <<>>
  /\ content = <<>> /\ result = Unset /\ tsv = NoTsv
  /\ cards \in {JList(cs) : cs \in BoundedSeq(CardElements, MaxCards)}
  /\ line = <<>> /\ deleted = FALSE /\ obj = JNull /\ again = <<>>

NextTsv == Serialize \/ Respond

SpecTsv == InitTsv /\ [][NextTsv]_vars

(***************************************************************************)
(* Properties of the functions                                             *)
(***************************************************************************)

\* C1: to_tsv raises for no input list; a missing or non-string english or
\* note_cn counts as the empty string, so a TSV string is always returned.
C1_SerializerNeverRaises == Ran("to_tsv") => tsv.ok

\* The lines of a TSV document, the empty document having none.
TsvLines(v) == IF v = <<>> THEN <<>> ELSE split(v, "\n")

Tabs(l) == Cardinality({i \in 1..Len(l) : l[i] = "\t"})

FirstColumn(l) == Take(l, find(l, "\t") - 1)

\* The english value of a card as the serializer reads it.
EnglishOf(c) ==
  IF c.t = "dict" /\ get_or_empty(c, KEY_ENGLISH).t = "str"
    THEN strip_tabs(get_or_empty(c, KEY_ENGLISH).v)
    ELSE <<>>

FirstCardWith(e) ==
  CHOOSE i \in 1..Len(cards.v) :
    /\ EnglishOf(cards.v[i]) = e
    /\ \A j \in 1..(i - 1) : EnglishOf(cards.v[j]) # e

\* C8: whenever to_tsv returns, its output split on newline has one line per
\* emitted record, each line with exactly one tab and a non-empty first
\* column, the first columns pairwise distinct and in the input order of the
\* first occurrence of each english value.
C8_WellFormedTsv ==
  (Ran("to_tsv") /\ tsv.ok)
    => LET ls == TsvLines(tsv.v) IN
       /\ Len(ls) = Len(tsv.lines)
       /\ \A i \in 1..Len(ls) :
            /\ Tabs(ls[i]) = 1
            /\ FirstColumn(ls[i]) # <<>>
            /\ \E k \in 1..Len(cards.v) : EnglishOf(cards.v[k]) = FirstColumn(ls[i])
       /\ \A i, j \in 1..Len(ls) :
            i < j => /\ FirstColumn(ls[i]) # FirstColumn(ls[j])
                     /\ FirstCardWith(FirstColumn(ls[i]))
                          < FirstCardWith(FirstColumn(ls[j]))

\* C6: clean_text is idempotent: applied to its own output it returns that
\* output, also for inputs with a carriage return not followed by a newline
\* or with several carriage returns before a newline.
C6_NormalizerIdempotent == pc = "normalized" => again = raw

\* C5, as stated: for any JSON value O, object or not, the text "Sure, here:",
\* a json fence, json(O) and a closing fence is extracted to a value equal
\* to O.
C5_RoundTripAnyValue == Ran("extract") => result = Returned(obj)

\* C5, amended: for any JSON object O, strings and nested objects with brace
\* characters included, the wrapped text is extracted to a value equal to O;
\* for an O that is not an object (array, string, number, boolean, null) the
\* extraction never returns O: it fails, or returns an object found inside.
C5_RoundTripObject ==
  Ran("extract")
    => IF obj.t = "dict" THEN result = Returned(obj)
       ELSE result # Returned(obj) /\ (result.ok => result.v.t = "dict")

C5_Witness ==
  /\ Ran("extract")
  /\ obj.t = "dict"
  /\ \E i \in 1..Len(obj.v) :
       /\ obj.v[i].v.t = "dict"
       /\ \E j \in 1..Len(obj.v[i].v.v) :
            /\ obj.v[i].v.v[j].k = <<"}">>
            /\ obj.v[i].v.v[j].v = JStr(<<"}", "{">>)
  /\ result = Returned(obj)

eq_ci(a, b) == lower_str(a) = lower_str(b)

\* a occurs in l from index i on, letter case aside.
occurs_at(l, a, i) ==
  i + Len(a) - 1 <= Len(l) /\ eq_ci(SubSeq(l, i, i + Len(a) - 1), a)

contains_ci(l, a) == \E i \in 1..(Len(l) + 1) : occurs_at(l, a, i)

\* An entry without a wildcard is an exact phrase.
IsExact(p) == \A i \in 1..Len(p) : p[i] # DOTSTAR

\* The literal pieces of an entry between its wildcards.
Segments(p) == split(p, DOTSTAR)

\* The pieces occur in l one after the other, in order.
RECURSIVE in_order(_, _)
in_order(l, segs) ==
  IF segs = <<>> THEN TRUE
  ELSE \E i \in 1..(Len(l) + 1) :
         /\ occurs_at(l, Head(segs), i)
         /\ in_order(Drop(l, i + Len(Head(segs)) - 1), Tail(segs))

\* What an entry discards, said without the regular expression: an exact
\* phrase discards the lines equal to it; an entry with wildcards, all of
\* which end in one, discards the lines that start with its first piece and
\* go on with its other pieces in order.
Covers(p, l) ==
  IF IsExact(p) THEN eq_ci(l, p)
  ELSE /\ occurs_at(l, Head(Segments(p)), 1)
       /\ in_order(Drop(l, Len(Head(Segments(p)))), Tail(Segments(p)))

\* l holds the entry's text with more characters before or after it.
HasExtra(l, a) == contains_ci(l, a) /\ ~eq_ci(l, a)

Entries == {DELETE_LINE_PATTERNS[k] : k \in 1..Len(DELETE_LINE_PATTERNS)}

\* C7, as stated: for every entry of the table, exact phrase or prefix
\* wildcard, a line equal to it letter case aside is discarded, and a line
\* that holds it with extra leading or trailing characters is kept.  The
\* lines are those the caller passes, trimmed of surrounding whitespace.
C7_EqualDiscardedLongerKept ==
  (pc = "filtered" /\ strip(line) = line)
    => \A p \in Entries :
         /\ eq_ci(line, Literal(p)) => deleted
         /\ HasExtra(line, Literal(p)) => ~deleted

\* C7, amended: a line is discarded exactly when, trimmed, it is not empty and
\* some entry covers it.  So for every entry a line equal to its text, letter
\* case aside, is discarded; a line that holds an exact phrase with extra
\* characters other than surrounding whitespace is kept unless another entry
\* covers the whole line; and a line that starts with the text of a prefix
\* wildcard entry is discarded whatever follows it, extra trailing characters
\* included.
C7_DiscardedIffCovered ==
  pc = "filtered"
    => /\ deleted <=> (strip(line) # <<>> /\ \E p \in Entries : Covers(p, strip(line)))
       /\ \A p \in Entries :
            /\ eq_ci(strip(line), Literal(p)) => deleted
            /\ (IsExact(p) /\ HasExtra(strip(line), p)
                  /\ ~\E q \in Entries : Covers(q, strip(line))) => ~deleted
            /\ (~IsExact(p) /\ Len(Segments(p)) = 2
                  /\ occurs_at(strip(line), Head(Segments(p)), 1)) => deleted

C7_Witness ==
  /\ pc = "filtered"
  /\ ~deleted
  /\ \E p \in Entries :
       /\ IsExact(p)
       /\ HasExtra(line, p)
       /\ occurs_at(line, p, 1)
       /\ Len(line) = Len(p) + 1

\* The places where a run of non-blank lines starts.
RunStarts(lines) ==
  {i \in 1..Len(lines) : lines[i] # <<>> /\ (i = 1 \/ lines[i - 1] = <<>>)}

\* The last line of the run that starts at a.
RunEnd(lines, a) ==
  CHOOSE b \in a..Len(lines) :
    /\ \A i \in a..b : lines[i] # <<>>
    /\ (b = Len(lines) \/ lines[b + 1] = <<>>)

\* The start of the n-th run.
NthRunStart(lines, n) ==
  CHOOSE a \in RunStarts(lines) :
    Cardinality({b \in RunStarts(lines) : b < a}) = n - 1

FirstIndex(s, x) ==
  CHOOSE i \in 1..Len(s) : s[i] = x /\ \A j \in 1..(i - 1) : s[j] # x

\* C9: the DialogueList made by clean, filter, segment and dedup holds no
\* empty Paragraph and no two equal Paragraphs, and lists the Paragraphs in
\* the order of their first occurrence: the Paragraphs are the maximal runs of
\* kept non-blank lines in their order, each run one Paragraph however many
\* blank lines lie between them, the run at the end of input included, and
\* the DialogueList is the first occurrences of them.
C9_DialogueListWellFormed ==
  pc = "call_model"
    => /\ \A i \in 1..Len(final_dialogue) : final_dialogue[i] # <<>>
       /\ \A i, j \in 1..Len(final_dialogue) :
            i < j => /\ final_dialogue[i] # final_dialogue[j]
                     /\ FirstIndex(paragraphs, final_dialogue[i])
                          < FirstIndex(paragraphs, final_dialogue[j])
       /\ Range(final_dialogue) = Range(paragraphs)
       /\ Len(paragraphs) = Cardinality(RunStarts(kept_lines))
       /\ \A n \in 1..Len(paragraphs) :
            paragraphs[n] =
              join(SubSeq(kept_lines, NthRunStart(kept_lines, n),
                          RunEnd(kept_lines, NthRunStart(kept_lines, n))),
                   <<"\n">>)
       /\ (kept_lines # <<>> /\ kept_lines[Len(kept_lines)] # <<>>)
            => /\ paragraphs # <<>>
               /\ RunEnd(kept_lines, NthRunStart(kept_lines, Len(paragraphs)))
                    = Len(kept_lines)
               /\ paragraphs[Len(paragraphs)] \in Range(final_dialogue)

C9_Witness ==
  /\ pc = "call_model"
  /\ Len(paragraphs) = 3
  /\ Len(final_dialogue) = 2
  /\ paragraphs[3] = paragraphs[1]
  /\ kept_lines[Len(kept_lines)] # <<>>

====
